---- MODULE Spec2Model ----
(***************************************************************************)
(* Agent selection and caching in the Personal Finance Assistant.          *)
(*                                                                         *)
(* Two registries are modelled: AgentService (services/agent_service.py),  *)
(* of which every route module constructs its own module-level instance,   *)
(* and AgentManager (services/agent_manager.py).                           *)
(*                                                                         *)
(* Python strings are sequences of tokens; the token alphabet is           *)
(* prefix-free, so concatenation, equality and str.startswith on token     *)
(* sequences agree with the same operations on the characters.  None (and  *)
(* the empty string, which `x or default` treats alike) is <<>>.           *)
(*                                                                         *)
(* An agent object is a record of `heap`; its index in `heap` is its       *)
(* identity.  The strands Agent is an external library: a call of an       *)
(* agent appends the user turn, runs the completion, appends the reply     *)
(* when there is one, and then lets the conversation manager trim the      *)
(* window (see AgentInvoke).                                               *)
(*                                                                         *)
(* The long-term memory operations (services/memory_service.py and the    *)
(* memory methods of AgentService) run against the mem0 backend, another   *)
(* external library: what a backend call does is an input of the model.    *)
(* The allocation functions of services/utils.py are modelled in exact     *)
(* decimal arithmetic.                                                     *)
(***************************************************************************)
EXTENDS Integers, Sequences, FiniteSets, TLC

VARIABLES
    agents,       \* [Services -> cache]: AgentService.agents of each service instance
    heap,         \* the agent objects; an agent's identity is its index
    mgrAgents,    \* AgentManager.agents
    mgrModel,     \* AgentManager.gemini_model: 0 for a GeminiModel, else the fallback Agent
    enableMemory, \* settings.enable_memory
    turns,        \* number of agent invocations so far
    pending,      \* (user, kind) pairs reset and not resolved since, per service
    last,         \* the last call and what it returned
    db,           \* the records the mem0 backend holds, in the order written
    memory,       \* MemoryService.memory: TRUE for a Memory(), FALSE for None
    arg,          \* the arguments a pure function is applied to
    cached_stock_data,     \* AgentService._cached_stock_data
    cached_visualizations, \* AgentService._cached_visualizations
    orchestration, \* the orchestration run in flight and the keys it has written
    loop          \* the chat requests the event loop holds and where each one is

cacheVars == <<cached_stock_data, cached_visualizations, orchestration>>

vars ==
    <<agents, heap, mgrAgents, mgrModel, enableMemory, turns, pending, last,
      db, memory, arg, cacheVars, loop>>

----------------------------------------------------------------------------
(* Bounds of the model *)

MaxAgents == 2        \* agents ever constructed (cache specifications)
MaxCacheTurns == 1    \* chat turns in the cache specification
MaxTurns == 6         \* chat turns in the conversation specification
MaxStored == 2        \* records written to the memory backend
ScoreSteps == 2       \* relevance scores are 0/ScoreSteps .. ScoreSteps/ScoreSteps
MaxResp == 3          \* items in one response of the memory backend
MaxResults == 2       \* largest max_results asked for
MaxTickers == 3       \* tickers in a metrics table
MaxRequests == 2      \* chat requests the event loop receives

(* Settings *)

conversation_window_size == 10
conversation_min_messages == 2

----------------------------------------------------------------------------
(* Strings *)

None == <<>>

StartsWith(s, p) == Len(p) <= Len(s) /\ SubSeq(s, 1, Len(p)) = p

BASIC == <<"basic">>
FINANCIAL == <<"financial">>
BUDGET == <<"budget">>
MEMORY == <<"memory">>
ORCHESTRATOR == <<"orchestrator">>

AgentKinds == {BASIC, FINANCIAL, BUDGET, MEMORY, ORCHESTRATOR}

default_user_id == <<"default_user">>

(* Inputs the callers draw from *)

BOGUS == <<"bogus">>
UserIds == {<<"u">>, <<"u", "_", "v">>}
KindInputs == AgentKinds \cup {BOGUS}
CacheKinds == {BASIC, MEMORY, ORCHESTRATOR, BOGUS, <<"v", "_", "basic">>}
WindowKinds == {FINANCIAL, BUDGET, MEMORY, BOGUS}
SessionInputs == {None, <<"s">>, <<"t">>}
Services == {"chat_routes", "agent_routes", "routes"}
DirectService == "agent_routes"

----------------------------------------------------------------------------
(* Agent objects *)

EmptyCache == [k \in {} |-> 0]

NewAgent(system_prompt, tools, window_size, state) ==
    [alive |-> TRUE, system_prompt |-> system_prompt, tools |-> tools,
     window_size |-> window_size, state |-> state,
     messages |-> <<>>, total |-> 0]

Freed ==
    [alive |-> FALSE, system_prompt |-> <<>>, tools |-> <<>>,
     window_size |-> 0, state |-> None, messages |-> <<>>, total |-> 0]

AppendMessage(a, role) ==
    [a EXCEPT !.messages = Append(@, [role |-> role, seq |-> a.total + 1]),
              !.total = @ + 1]

apply_management(a) ==
    IF a.window_size > 0 /\ Len(a.messages) > a.window_size
    THEN [a EXCEPT !.messages =
              SubSeq(@, Len(@) - a.window_size + 1, Len(@))]
    ELSE a

AgentInvoke(a, completes) ==
    LET withUser == AppendMessage(a, "user")
    IN  IF completes
        THEN apply_management(AppendMessage(withUser, "assistant"))
        ELSE apply_management(withUser)

----------------------------------------------------------------------------
(* AgentService *)

AgentService_create_basic_agent == NewAgent(<<>>, <<>>, 0, None)

AgentService_create_financial_agent == NewAgent(<<"finance">>, <<>>, 0, None)

AgentService_create_budget_agent ==
    NewAgent(<<"budget">>,
             <<"calculate_budget", "create_financial_chart", "generate_sample_data">>,
             0, None)

AgentService_create_memory_agent_unmanaged(initial_state) ==
    NewAgent(<<"MEMORY_SYSTEM_PROMPT">>,
             <<"mem0_store_memory", "mem0_retrieve_memories",
               "mem0_list_memories", "use_llm_tool">>,
             0, initial_state)

AgentService_create_memory_agent(initial_state) ==
    IF enableMemory
    THEN NewAgent(<<"MEMORY_SYSTEM_PROMPT">>,
                  <<"mem0_store_memory", "mem0_retrieve_memories",
                    "mem0_list_memories", "use_llm_tool">>,
                  conversation_window_size, initial_state)
    ELSE NewAgent(<<"BASIC_SYSTEM_PROMPT">>, <<>>,
                  conversation_window_size, initial_state)

AgentService_create_portfolio_orchestrator ==
    NewAgent(<<"orchestrator">>,
             <<"stock_data_agent", "growth_strategy_agent",
               "diversified_strategy_agent", "performance_calculator_agent",
               "visualization_agent", "validation_agent">>,
             0, None)

AgentService_agent_key(user_id, agent_type) == user_id \o <<"_">> \o agent_type

AgentService_construct(agent_type, initial_state) ==
    CASE agent_type = BASIC -> AgentService_create_basic_agent
      [] agent_type = FINANCIAL -> AgentService_create_financial_agent
      [] agent_type = BUDGET -> AgentService_create_budget_agent
      [] agent_type = MEMORY -> AgentService_create_memory_agent(initial_state)
      [] agent_type = ORCHESTRATOR -> AgentService_create_portfolio_orchestrator

AgentService_get_or_create_agent(cache, hp, user_id, agent_type, initial_state) ==
    LET agent_key == AgentService_agent_key(user_id, agent_type)
    IN  IF agent_key \in DOMAIN cache
        THEN [cache |-> cache, heap |-> hp, agent |-> cache[agent_key],
              raised |-> FALSE]
        ELSE IF agent_type \in {BASIC, FINANCIAL, BUDGET, MEMORY, ORCHESTRATOR}
        THEN [cache |-> (agent_key :> (Len(hp) + 1)) @@ cache,
              heap |-> Append(hp, AgentService_construct(agent_type, initial_state)),
              agent |-> Len(hp) + 1,
              raised |-> FALSE]
        ELSE [cache |-> cache, heap |-> hp, agent |-> 0, raised |-> TRUE]

AgentService_chat(cache, hp, user_id, agent_type, session_id, completes) ==
    LET r == AgentService_get_or_create_agent(cache, hp, user_id, agent_type, None)
    IN  IF r.raised
        THEN [cache |-> r.cache, heap |-> r.heap, agent |-> 0, raised |-> TRUE,
              result |-> [error |-> "ValueError"]]
        ELSE LET hp2 == [r.heap EXCEPT ![r.agent] = AgentInvoke(@, completes)]
             IN  IF completes
                 THEN [cache |-> r.cache, heap |-> hp2, agent |-> r.agent,
                       raised |-> FALSE,
                       result |-> [response |-> "reply", agent_type |-> agent_type,
                                   user_id |-> user_id, session_id |-> session_id,
                                   timestamp |-> "now"]]
                 ELSE [cache |-> r.cache, heap |-> hp2, agent |-> r.agent,
                       raised |-> TRUE,
                       result |-> [error |-> "completion failed"]]

AgentService_reset_agent_memory_only(cache, user_id) ==
    [key \in DOMAIN cache \ {AgentService_agent_key(user_id, MEMORY)} |-> cache[key]]

AgentService_reset_agent(cache, user_id) ==
    LET keys_to_remove == {key \in DOMAIN cache : StartsWith(key, user_id \o <<"_">>)}
    IN  [key \in DOMAIN cache \ keys_to_remove |-> cache[key]]

(* reads: whether the attribute reads inside the try block succeed *)
AgentService_get_agent_state_as_turn(cache, hp, user_id, reads) ==
    LET r == AgentService_chat(cache, hp, user_id, MEMORY, None, reads)
    IN  [cache |-> r.cache, heap |-> r.heap, agent |-> r.agent,
         result |-> [error |-> "AttributeError"]]

AgentService_get_agent_state(cache, hp, user_id, reads) ==
    LET r == AgentService_get_or_create_agent(cache, hp, user_id, MEMORY, None)
    IN  [cache |-> r.cache, heap |-> r.heap, agent |-> r.agent,
         result |-> IF reads
                    THEN [agent_id |-> <<"agent", "_">> \o user_id,
                          message_count |-> Len(r.heap[r.agent].messages),
                          state |-> r.heap[r.agent].state,
                          available_tools |-> r.heap[r.agent].tools]
                    ELSE [error |-> "AttributeError"]]

AgentService_get_conversation_history(cache, hp, user_id, reads) ==
    LET r == AgentService_get_or_create_agent(cache, hp, user_id, MEMORY, None)
    IN  [cache |-> r.cache, heap |-> r.heap, agent |-> r.agent,
         result |-> IF reads THEN r.heap[r.agent].messages ELSE <<>>]

----------------------------------------------------------------------------
(* AgentManager.  model is 0 when gemini_model is a GeminiModel, and the    *)
(* identity of the fallback Agent when no API key is configured.           *)

AgentManager_fallback_agent == NewAgent(<<>>, <<>>, 0, None)

AgentManager_create_basic_agent ==
    NewAgent(<<"helpful financial assistant">>, <<>>, 0, None)

AgentManager_create_financial_agent ==
    NewAgent(<<"financial advisor">>, <<>>, 0, None)

AgentManager_create_budget_agent ==
    NewAgent(<<"budget analysis specialist">>,
             <<"calculator", "calculate_budget", "create_financial_chart",
               "generate_sample_data">>,
             0, None)

AgentManager_create_memory_agent(user_id) ==
    NewAgent(<<"memory-enabled financial assistant for user ">> \o user_id,
             <<"mem0_store_memory", "mem0_retrieve_memories",
               "mem0_list_memories">>,
             0, None)

AgentManager_agent_key(user_id, agent_type, session_id) ==
    user_id \o <<"_">> \o agent_type \o <<"_">> \o
    (IF session_id # None THEN session_id ELSE <<"default">>)

AgentManager_construct(user_id, agent_type) ==
    CASE agent_type = BASIC -> AgentManager_create_basic_agent
      [] agent_type = FINANCIAL -> AgentManager_create_financial_agent
      [] agent_type = BUDGET -> AgentManager_create_budget_agent
      [] agent_type = MEMORY -> AgentManager_create_memory_agent(user_id)
      [] OTHER -> AgentManager_create_basic_agent

AgentManager_get_or_create_agent_strict(cache, hp, model, user_id, agent_type, session_id) ==
    LET agent_key == AgentManager_agent_key(user_id, agent_type, session_id)
    IN  IF agent_key \in DOMAIN cache
        THEN [cache |-> cache, heap |-> hp, agent |-> cache[agent_key],
              raised |-> FALSE]
        ELSE IF agent_type \notin {BASIC, FINANCIAL, BUDGET, MEMORY}
        THEN [cache |-> cache, heap |-> hp, agent |-> 0, raised |-> TRUE]
        ELSE IF model # 0
        THEN [cache |-> (agent_key :> model) @@ cache, heap |-> hp,
              agent |-> model, raised |-> FALSE]
        ELSE [cache |-> (agent_key :> (Len(hp) + 1)) @@ cache,
              heap |-> Append(hp, AgentManager_construct(user_id, agent_type)),
              agent |-> Len(hp) + 1, raised |-> FALSE]

AgentManager_get_or_create_agent(cache, hp, model, user_id, agent_type, session_id) ==
    LET agent_key == AgentManager_agent_key(user_id, agent_type, session_id)
    IN  IF agent_key \in DOMAIN cache
        THEN [cache |-> cache, heap |-> hp, agent |-> cache[agent_key],
              raised |-> FALSE]
        ELSE IF model # 0
        THEN [cache |-> (agent_key :> model) @@ cache, heap |-> hp,
              agent |-> model, raised |-> FALSE]
        ELSE [cache |-> (agent_key :> (Len(hp) + 1)) @@ cache,
              heap |-> Append(hp, AgentManager_construct(user_id, agent_type)),
              agent |-> Len(hp) + 1, raised |-> FALSE]

(* outcome: "reply" when agent.run returns, "error" when the completion    *)
(* fails after the user turn was recorded, "no_run" when the call fails    *)
(* before the agent is touched.                                            *)
RunOutcomes == {"reply", "error", "no_run"}

AgentManager_chat(cache, hp, model, user_id, agent_type, session_id, outcome) ==
    LET r == AgentManager_get_or_create_agent(cache, hp, model, user_id,
                                              agent_type, session_id)
        hp2 == IF r.raised \/ outcome = "no_run" THEN r.heap
               ELSE [r.heap EXCEPT ![r.agent] = AgentInvoke(@, outcome = "reply")]
    IN  IF ~r.raised /\ outcome = "reply"
        THEN [cache |-> r.cache, heap |-> hp2, agent |-> r.agent,
              raised |-> FALSE,
              result |-> [response |-> "reply", user_id |-> user_id,
                          session_id |-> session_id,
                          message_count |-> Len(hp2[r.agent].messages),
                          timestamp |-> "now",
                          metadata |-> [agent_type |-> agent_type]]]
        ELSE [cache |-> r.cache, heap |-> hp2, agent |-> r.agent,
              raised |-> TRUE, result |-> [error |-> "Exception"]]

----------------------------------------------------------------------------
(* Long-term memory.  The mem0 backend is an external library: a call      *)
(* either raises or returns a value, and what it returns is an input.      *)
(* A dict is a record, dict.get(key, default) is Get.                      *)

Get(d, key, default) == IF key \in DOMAIN d THEN d[key] ELSE default

PyNone == [type |-> "NoneType"]
PyStr == [type |-> "str"]
PyDict(items) == [type |-> "dict", items |-> items]

(* What a store call of the backend can do: raise, or write the record    *)
(* and return a dict with an id, a dict without one, or something else.   *)
StoreOutcomes ==
    {[raises |-> TRUE, value |-> PyNone],
     [raises |-> FALSE, value |-> PyDict([id |-> <<"m1">>])],
     [raises |-> FALSE, value |-> PyDict([results |-> <<>>])],
     [raises |-> FALSE, value |-> PyStr]}

Backend_store(d, user_id, content) ==
    Append(d, [user_id |-> user_id, content |-> content])

MemoryService_store_memory(mem, d, user_id, content, outcome) ==
    IF ~mem
    THEN [db |-> d, raised |-> FALSE,
          result |-> [success |-> FALSE,
                      message |-> "Memory service not available",
                      result |-> PyNone]]
    ELSE IF outcome.raises
    THEN [db |-> d, raised |-> FALSE,
          result |-> [success |-> FALSE, message |-> "Memory storage failed",
                      result |-> PyNone]]
    ELSE [db |-> Backend_store(d, user_id, content), raised |-> FALSE,
          result |-> [success |-> TRUE, message |-> "Memory stored successfully",
                      result |-> outcome.value]]

MemoryService_PREFIX == <<"USER PREFERENCES: ">>

MemoryService_initialize_user_preferences_unprefixed(mem, d, user_id, preferences, outcome) ==
    MemoryService_store_memory(mem, d, user_id, preferences, outcome)

MemoryService_initialize_user_preferences(mem, d, user_id, preferences, outcome) ==
    IF ~mem
    THEN [db |-> d, raised |-> FALSE,
          result |-> [success |-> FALSE,
                      message |-> "Memory service not available",
                      result |-> PyNone]]
    ELSE IF outcome.raises
    THEN [db |-> d, raised |-> FALSE,
          result |-> [success |-> FALSE,
                      message |-> "Preference initialization failed",
                      result |-> PyNone]]
    ELSE [db |-> Backend_store(d, user_id, MemoryService_PREFIX \o preferences),
          raised |-> FALSE,
          result |-> [success |-> TRUE,
                      message |-> "User preferences initialized successfully",
                      result |-> outcome.value]]

AgentService_store_memory_raising(d, user_id, content, outcome) ==
    IF outcome.raises
    THEN [db |-> d, raised |-> TRUE, result |-> [error |-> "Exception"]]
    ELSE [db |-> Backend_store(d, user_id, content), raised |-> FALSE,
          result |-> [success |-> TRUE, message |-> "Memory stored successfully",
                      result |-> outcome.value]]

AgentService_store_memory(d, user_id, content, outcome) ==
    IF outcome.raises
    THEN [db |-> d, raised |-> FALSE,
          result |-> [success |-> FALSE, message |-> "Storage failed"]]
    ELSE [db |-> Backend_store(d, user_id, content), raised |-> FALSE,
          result |-> [success |-> TRUE, message |-> "Memory stored successfully",
                      result |-> outcome.value]]

AgentService_PREFIX == <<"User preferences: ">>

AgentService_initialize_user_preferences(d, user_id, preferences, outcome) ==
    AgentService_store_memory(d, user_id, AgentService_PREFIX \o preferences,
                              outcome)

(* A search or listing call of the backend: it raises, or it returns     *)
(* `results`, a list of items [id, memory] that may carry a score.  Scores *)
(* are the integers 0..ScoreSteps, standing for score / ScoreSteps.        *)

PyList(items) == [type |-> "list", items |-> items]

MemoryService_retrieve_memories(mem, response, min_score, max_results) ==
    IF ~mem \/ response.raises
    THEN [success |-> FALSE, results |-> <<>>]
    ELSE LET memories == response.results
             Keep(m) == Get(m, "score", 0) >= min_score
         IN  [success |-> TRUE,
              results |-> IF min_score > 0 THEN SelectSeq(memories, Keep)
                          ELSE memories]

MemoryService_list_all_memories(mem, response) ==
    IF ~mem \/ response.raises
    THEN [success |-> FALSE, results |-> <<>>]
    ELSE [success |-> TRUE, results |-> response.results]

AgentService_retrieve_memories(response, min_score, max_results) ==
    IF response.raises THEN PyList(<<>>) ELSE PyList(response.results)

AgentService_list_all_memories(response) ==
    IF response.raises THEN PyList(<<>>) ELSE PyList(response.results)

(* schemas.Memory built from an item; content_keys are the keys tried for  *)
(* the content, in order.                                                  *)
Memory_of(m, content) ==
    IF "score" \in DOMAIN m
    THEN [id |-> Get(m, "id", None), content |-> content, score |-> m.score]
    ELSE [id |-> Get(m, "id", None), content |-> content]

----------------------------------------------------------------------------
(* Portfolio allocation (services/utils.py).  Returns and volatilities are *)
(* exact decimals counted in tenths of a percent, so the floor 0.1 of      *)
(* performance weighting is 1; a weight rounded to two decimals is counted *)
(* in hundredths of a percent.  Quotients are exact rationals, kept as a   *)
(* numerator over a common positive denominator.                           *)

Tenths == 10

RECURSIVE SumOver(_, _)
SumOver(f, S) ==
    IF S = {} THEN 0
    ELSE LET x == CHOOSE y \in S : TRUE IN f[x] + SumOver(f, S \ {x})

RECURSIVE ProductOver(_, _)
ProductOver(f, S) ==
    IF S = {} THEN 1
    ELSE LET x == CHOOSE y \in S : TRUE IN f[x] * ProductOver(f, S \ {x})

Min(a, b) == IF a <= b THEN a ELSE b
Max(a, b) == IF a >= b THEN a ELSE b

(* round(n / d, 0) for d > 0, ties to the even neighbour *)
RoundHalfEven(n, d) ==
    LET q == n \div d
        rem == n - q * d
    IN  IF 2 * rem < d THEN q
        ELSE IF 2 * rem > d THEN q + 1
        ELSE IF q % 2 = 0 THEN q ELSE q + 1

(* round(n / d * 100, 2) in hundredths, d # 0 *)
RoundedPercent(n, d) ==
    IF d > 0 THEN RoundHalfEven(10000 * n, d) ELSE RoundHalfEven(-10000 * n, -d)

ReturnOf(data) == Get(data, "annual_return", Get(data, "return_pct", 0))

VolatilityOf(data) == Get(data, "volatility", Get(data, "volatility_pct", Tenths))

(* ret / vol if vol > 0 else 0, for every ticker, as numerators over the   *)
(* product of the positive volatilities                                    *)
SharpeNumerators(metrics) ==
    LET T == DOMAIN metrics
        vol == [t \in T |-> IF VolatilityOf(metrics[t]) > 0
                            THEN VolatilityOf(metrics[t]) ELSE 1]
        D == ProductOver(vol, T)
    IN  [t \in T |-> IF VolatilityOf(metrics[t]) > 0
                     THEN ReturnOf(metrics[t]) * (D \div vol[t]) ELSE 0]

create_growth_portfolio(metrics, allocation_method) ==
    LET T == DOMAIN metrics
    IN  IF allocation_method = "equal_weight"
        THEN IF T = {} THEN [raised |-> TRUE]
             ELSE [raised |-> FALSE,
                   allocation |-> [t \in T |-> RoundedPercent(1, Cardinality(T))]]
        ELSE IF allocation_method = "risk_adjusted"
        THEN LET sharpe_ratios == SharpeNumerators(metrics)
                 total_sharpe == SumOver(sharpe_ratios, T)
             IN  [raised |-> FALSE,
                  allocation |->
                      [t \in T |-> IF total_sharpe > 0
                                   THEN RoundedPercent(sharpe_ratios[t], total_sharpe)
                                   ELSE 0]]
        ELSE LET positive_returns == [t \in T |-> Max(ReturnOf(metrics[t]), 1)]
                 total_return == SumOver(positive_returns, T)
             IN  [raised |-> FALSE,
                  allocation |->
                      [t \in T |-> IF total_return > 0
                                   THEN RoundedPercent(positive_returns[t], total_return)
                                   ELSE 0]]

(* max_allocation is a whole percentage *)
create_diversified_portfolio_recapped(metrics, max_allocation) ==
    LET T == DOMAIN metrics
        sharpe_ratios == SharpeNumerators(metrics)
        total_sharpe == SumOver(sharpe_ratios, T)
        scale == IF total_sharpe > 0 THEN total_sharpe ELSE 1
        raw_allocation == [t \in T |-> IF total_sharpe > 0
                                       THEN 100 * sharpe_ratios[t] ELSE 0]
        allocation == [t \in T |-> Min(raw_allocation[t], max_allocation * scale)]
        total_alloc == SumOver(allocation, T)
    IN  IF total_alloc = 0 THEN [raised |-> TRUE]
        ELSE [raised |-> FALSE,
              allocation |-> [t \in T |-> Min(RoundedPercent(allocation[t], total_alloc),
                                              100 * max_allocation)]]

create_diversified_portfolio(metrics, max_allocation) ==
    LET T == DOMAIN metrics
        sharpe_ratios == SharpeNumerators(metrics)
        total_sharpe == SumOver(sharpe_ratios, T)
        scale == IF total_sharpe > 0 THEN total_sharpe ELSE 1
        raw_allocation == [t \in T |-> IF total_sharpe > 0
                                       THEN 100 * sharpe_ratios[t] ELSE 0]
        allocation == [t \in T |-> Min(raw_allocation[t], max_allocation * scale)]
        total_alloc == SumOver(allocation, T)
    IN  IF total_alloc = 0 THEN [raised |-> TRUE]
        ELSE [raised |-> FALSE,
              allocation |-> [t \in T |-> RoundedPercent(allocation[t], total_alloc)]]

----------------------------------------------------------------------------
(* Portfolio orchestration (agent_service.py).  The orchestrator and its   *)
(* specialists are language-model agents: which tools they call, in which  *)
(* order and with which arguments is an input.  A tool argument is a       *)
(* Python value carrying its type; v[key] raises unless v is a dict        *)
(* holding key.                                                            *)

PyFloat(x) == [type |-> "float", value |-> x]

Subscriptable(v, key) == v.type = "dict" /\ key \in DOMAIN v.items

(* AgentService.__init__: both artifact caches start empty *)
NoEntries == [k \in {} |-> 0]

NoRun == [active |-> FALSE, written |-> {}]

(* No request has arrived *)
NoRequests == [running |-> 0, handler |-> <<>>]

Put(cache, key, value) ==
    [k \in DOMAIN cache \cup {key} |-> IF k = key THEN value ELSE cache[k]]

(* sum(allocation[t] / 100 * field[t]) rounded to two decimals, in          *)
(* hundredths; allocation is in hundredths, field in tenths                 *)
Weighted(allocation, field) ==
    RoundHalfEven(SumOver([t \in DOMAIN allocation |-> allocation[t] * field[t]],
                          DOMAIN allocation), 1000)

calculate_portfolio_performance(portfolio, stock_data, investment_amount) ==
    IF ~Subscriptable(portfolio, "allocation") THEN [raised |-> TRUE]
    ELSE IF ~Subscriptable(stock_data, "summary_metrics") THEN [raised |-> TRUE]
    ELSE LET allocation == portfolio.items.allocation
             metrics == stock_data.items.summary_metrics
         IN  IF ~(DOMAIN allocation \subseteq DOMAIN metrics) THEN [raised |-> TRUE]
             ELSE LET ret == [t \in DOMAIN allocation |-> ReturnOf(metrics[t])]
                      vol == [t \in DOMAIN allocation |->
                                 Get(metrics[t], "volatility",
                                     Get(metrics[t], "volatility_pct", 0))]
                  IN  [raised |-> FALSE,
                       initial_investment |-> investment_amount,
                       return_percent |-> Weighted(allocation, ret),
                       volatility_percent |-> Weighted(allocation, vol)]

(* The parameter validation_end has no default: a call that leaves it out  *)
(* raises before the body runs.                                            *)
Missing == [type |-> "missing"]

validate_portfolio_performance(portfolio, validation_start, validation_end, outcome) ==
    IF validation_end = Missing THEN [raised |-> TRUE]
    ELSE IF ~Subscriptable(portfolio, "allocation")
    THEN [raised |-> FALSE, success |-> FALSE]
    ELSE [raised |-> FALSE, success |-> outcome]

(* The tools of the specialists: each returns the cache it leaves.  A tool *)
(* catches what the utility raises and returns an error text.              *)

stock_data_fetch(cache, fetched) ==
    IF fetched.raised THEN cache ELSE Put(cache, "comprehensive", fetched.data)

stock_analysis_fetch(cache, fetched) ==
    IF fetched.raised THEN cache ELSE Put(cache, "analysis", fetched.data)

create_growth_portfolio_tool(cache, analysis_data) ==
    IF ~Subscriptable(analysis_data, "summary_metrics") THEN cache
    ELSE LET portfolio == create_growth_portfolio(analysis_data.items.summary_metrics,
                                                  "performance_weighted")
         IN  IF portfolio.raised THEN cache
             ELSE Put(cache, "growth_portfolio",
                      PyDict([allocation |-> portfolio.allocation]))

create_diversified_portfolio_tool(cache, analysis_data) ==
    IF ~Subscriptable(analysis_data, "summary_metrics") THEN cache
    ELSE LET portfolio == create_diversified_portfolio(analysis_data.items.summary_metrics,
                                                       30)
         IN  IF portfolio.raised THEN cache
             ELSE Put(cache, "diversified_portfolio",
                      PyDict([allocation |-> portfolio.allocation]))

(* calculate_portfolio_performance(portfolio, initial_investment): the     *)
(* amount is passed where the function takes the stock data                *)
calculate_performance_tool(cache, portfolio, initial_investment) ==
    LET performance == calculate_portfolio_performance(portfolio,
                                                       PyFloat(initial_investment), 1000)
    IN  IF performance.raised THEN cache
        ELSE Put(cache, "performance", PyDict(performance))

(* validate_portfolio_performance(portfolio, historical_data) *)
validate_portfolio(cache, portfolio, historical_data, outcome) ==
    LET validation_results == validate_portfolio_performance(portfolio, historical_data,
                                                             Missing, outcome)
    IN  IF validation_results.raised THEN cache
        ELSE Put(cache, "validation", PyDict(validation_results))

(* The charts are drawn by matplotlib: renders tells whether it succeeds *)
create_allocation_chart(charts, portfolio, renders) ==
    IF Subscriptable(portfolio, "allocation") /\ renders
    THEN Put(charts, "allocation", "chart") ELSE charts

(* visualize_performance_comparison iterates its argument and subscripts   *)
(* each element: the keys of a dict are strings, so only an empty dict     *)
(* passes                                                                  *)
create_performance_chart(charts, performance_data, renders) ==
    IF performance_data.type = "dict" /\ DOMAIN performance_data.items = {} /\ renders
    THEN Put(charts, "performance", "chart") ELSE charts

PortfolioKeys == {"growth_portfolio", "diversified_portfolio"}

(* 'portfolio' in key.lower(), for the keys the tools write *)
get_cached_portfolios(cache) ==
    [k \in DOMAIN cache \cap PortfolioKeys |-> cache[k]]

get_cached_visualizations(charts) == charts

clear_cache_portfolios_only(cache, charts) == [cache |-> NoEntries, charts |-> charts]

clear_cache(cache, charts) == [cache |-> NoEntries, charts |-> NoEntries]

----------------------------------------------------------------------------
(* Response models *)

ChatResponse_required == {"response", "user_id", "message_count"}

AgentStateResponse_required ==
    {"agent_id", "message_count", "state", "available_tools"}

Validates(required, data) == required \subseteq DOMAIN data

----------------------------------------------------------------------------
(* Reference counting: an agent no registry holds any more is freed *)

Referenced(ag, mgr, model) ==
    UNION {{ag[s][k] : k \in DOMAIN ag[s]} : s \in Services} \cup
    {mgr[k] : k \in DOMAIN mgr} \cup {model}

Collect(hp, ag, mgr, model) ==
    [i \in 1..Len(hp) |->
        IF i \in Referenced(ag, mgr, model) THEN hp[i] ELSE Freed]

----------------------------------------------------------------------------
(* Observations *)

NoCall ==
    [op |-> "none", svc |-> "none", user_id |-> None, agent_type |-> None,
     session_id |-> None, agent |-> 0, created |-> FALSE, raised |-> FALSE,
     status |-> 0, result |-> [none |-> TRUE]]

NoArg == [fn |-> "none"]

Call(op, svc, user_id, agent_type, session_id, agent, created, raised, status, result) ==
    [op |-> op, svc |-> svc, user_id |-> user_id, agent_type |-> agent_type,
     session_id |-> session_id, agent |-> agent, created |-> created,
     raised |-> raised, status |-> status, result |-> result]

----------------------------------------------------------------------------
(* Direct calls of an AgentService instance *)

SvcGetOrCreate(s, user_id, agent_type, initial_state) ==
    LET r == AgentService_get_or_create_agent(agents[s], heap, user_id,
                                              agent_type, initial_state)
    IN  /\ agents' = [agents EXCEPT ![s] = r.cache]
        /\ heap' = r.heap
        /\ pending' = IF r.raised THEN pending
                      ELSE [pending EXCEPT ![s] = @ \ {<<user_id, agent_type>>}]
        /\ last' = Call("get_or_create_agent", s, user_id, agent_type, None,
                        r.agent, r.agent > Len(heap), r.raised, 0,
                        [none |-> TRUE])
        /\ UNCHANGED <<mgrAgents, mgrModel, enableMemory, turns>>
        /\ UNCHANGED <<db, memory, arg, cacheVars, loop>>

SvcChat(s, user_id, agent_type, session_id, completes) ==
    LET r == AgentService_chat(agents[s], heap, user_id, agent_type,
                               session_id, completes)
    IN  /\ turns' = turns + 1
        /\ agents' = [agents EXCEPT ![s] = r.cache]
        /\ heap' = r.heap
        /\ pending' = IF r.agent = 0 THEN pending
                      ELSE [pending EXCEPT ![s] = @ \ {<<user_id, agent_type>>}]
        /\ last' = Call("chat", s, user_id, agent_type, session_id,
                        r.agent, r.agent > Len(heap), r.raised, 0, r.result)
        /\ UNCHANGED <<mgrAgents, mgrModel, enableMemory>>
        /\ UNCHANGED <<db, memory, arg, cacheVars, loop>>

SvcReset(s, user_id) ==
    LET cache == AgentService_reset_agent(agents[s], user_id)
        ag == [agents EXCEPT ![s] = cache]
    IN  /\ agents' = ag
        /\ heap' = Collect(heap, ag, mgrAgents, mgrModel)
        /\ pending' = [pending EXCEPT ![s] = @ \cup ({user_id} \X AgentKinds)]
        /\ last' = Call("reset_agent", s, user_id, None, None, 0, FALSE, FALSE, 0,
                        [none |-> TRUE])
        /\ UNCHANGED <<mgrAgents, mgrModel, enableMemory, turns>>
        /\ UNCHANGED <<db, memory, arg, cacheVars, loop>>

----------------------------------------------------------------------------
(* Calls on the AgentManager *)

MgrGetOrCreate(user_id, agent_type, session_id) ==
    LET r == AgentManager_get_or_create_agent(mgrAgents, heap, mgrModel, user_id,
                                              agent_type, session_id)
    IN  /\ mgrAgents' = r.cache
        /\ heap' = r.heap
        /\ last' = Call("AgentManager.get_or_create_agent", "manager", user_id,
                        agent_type, session_id, r.agent, r.agent > Len(heap),
                        r.raised, 0, [none |-> TRUE])
        /\ UNCHANGED <<agents, mgrModel, enableMemory, turns, pending>>
        /\ UNCHANGED <<db, memory, arg, cacheVars, loop>>

MgrChat(user_id, agent_type, session_id, outcome) ==
    LET r == AgentManager_chat(mgrAgents, heap, mgrModel, user_id, agent_type,
                               session_id, outcome)
    IN  /\ turns' = turns + 1
        /\ mgrAgents' = r.cache
        /\ heap' = r.heap
        /\ last' = Call("AgentManager.chat", "manager", user_id, agent_type,
                        session_id, r.agent, r.agent > Len(heap), r.raised, 0,
                        r.result)
        /\ UNCHANGED <<agents, mgrModel, enableMemory, pending>>
        /\ UNCHANGED <<db, memory, arg, cacheVars, loop>>

----------------------------------------------------------------------------
(* Memory operations.  `arg` records the arguments of a store call and the *)
(* outcome of its backend call; for the retrieval functions it holds the   *)
(* arguments and the backend's response they are applied to.               *)

agentVars == <<agents, heap, mgrAgents, mgrModel, enableMemory, turns, pending>>

EmptyDict == [k \in {} |-> 0]

MemCall(op, svc, user_id, raised, status, result) ==
    Call(op, svc, user_id, None, None, 0, FALSE, raised, status, result)

StoreArg(fn, text, outcome) == [fn |-> fn, text |-> text, outcome |-> outcome]

MemStore(user_id, content, outcome) ==
    LET r == MemoryService_store_memory(memory, db, user_id, content, outcome)
    IN  /\ db' = r.db
        /\ last' = MemCall("MemoryService.store_memory", "memory_service",
                           user_id, r.raised, 0, r.result)
        /\ arg' = StoreArg("store", content, outcome)
        /\ UNCHANGED <<agentVars, memory, cacheVars, loop>>

MemInitPrefs(user_id, preferences, outcome) ==
    LET r == MemoryService_initialize_user_preferences(memory, db, user_id,
                                                       preferences, outcome)
    IN  /\ db' = r.db
        /\ last' = MemCall("MemoryService.initialize_user_preferences",
                           "memory_service", user_id, r.raised, 0, r.result)
        /\ arg' = StoreArg("initialize", preferences, outcome)
        /\ UNCHANGED <<agentVars, memory, cacheVars, loop>>

SvcStore(user_id, content, outcome) ==
    LET r == AgentService_store_memory(db, user_id, content, outcome)
    IN  /\ db' = r.db
        /\ last' = MemCall("AgentService.store_memory", "memory_routes",
                           user_id, r.raised, 0, r.result)
        /\ arg' = StoreArg("store", content, outcome)
        /\ UNCHANGED <<agentVars, memory, cacheVars, loop>>

SvcInitPrefs(user_id, preferences, outcome) ==
    LET r == AgentService_initialize_user_preferences(db, user_id, preferences,
                                                      outcome)
    IN  /\ db' = r.db
        /\ last' = MemCall("AgentService.initialize_user_preferences",
                           "agent_routes", user_id, r.raised, 0, r.result)
        /\ arg' = StoreArg("initialize", preferences, outcome)
        /\ UNCHANGED <<agentVars, memory, cacheVars, loop>>

(* result.get("result", {}).get("id") *)
StoredId(result) == Get(Get(result, "result", PyDict(EmptyDict)).items, "id", None)

StoredIdRaises(result) == Get(result, "result", PyDict(EmptyDict)).type # "dict"

store_memory(user_id, content, outcome) ==
    LET r == AgentService_store_memory(db, user_id, content, outcome)
        crashed == r.raised \/ StoredIdRaises(r.result)
    IN  /\ db' = r.db
        /\ last' = MemCall("POST /memory/store", "memory_routes", user_id,
                           r.raised, IF crashed THEN 500 ELSE 200,
                           IF crashed THEN [detail |-> "Memory storage failed"]
                           ELSE [success |-> r.result.success,
                                 message |-> r.result.message,
                                 memory_id |-> StoredId(r.result)])
        /\ arg' = StoreArg("store", content, outcome)
        /\ UNCHANGED <<agentVars, memory, cacheVars, loop>>

initialize_preferences(user_id, preferences, outcome) ==
    LET r == AgentService_initialize_user_preferences(db, user_id, preferences,
                                                      outcome)
        crashed == r.raised \/ StoredIdRaises(r.result)
    IN  /\ db' = r.db
        /\ last' = MemCall("POST /preferences/initialize", "agent_routes",
                           user_id, r.raised, IF crashed THEN 500 ELSE 200,
                           IF crashed
                           THEN [detail |-> "Failed to initialize preferences"]
                           ELSE [success |-> r.result.success,
                                 message |-> "User preferences initialized successfully",
                                 memory_id |-> StoredId(r.result)])
        /\ arg' = StoreArg("initialize", preferences, outcome)
        /\ UNCHANGED <<agentVars, memory, cacheVars, loop>>

(* Retrieval and listing, applied to the arguments and response in `arg` *)

Applied(op, svc, raised, status, result) ==
    /\ last' = MemCall(op, svc, arg.user_id, raised, status, result)
    /\ UNCHANGED <<agentVars, db, memory, arg, cacheVars, loop>>

Memories(items, content_key, fallback_key, fallback) ==
    [i \in 1..Len(items) |->
        Memory_of(items[i],
                  Get(items[i], content_key, Get(items[i], fallback_key, fallback)))]

MemRetrieve ==
    Applied("MemoryService.retrieve_memories", "memory_service", FALSE, 0,
            MemoryService_retrieve_memories(memory, arg.response, arg.min_score,
                                            arg.max_results))

MemList ==
    Applied("MemoryService.list_all_memories", "memory_service", FALSE, 0,
            MemoryService_list_all_memories(memory, arg.response))

SvcRetrieve ==
    Applied("AgentService.retrieve_memories", "memory_routes", FALSE, 0,
            AgentService_retrieve_memories(arg.response, arg.min_score,
                                           arg.max_results))

SvcList ==
    Applied("AgentService.list_all_memories", "memory_routes", FALSE, 0,
            AgentService_list_all_memories(arg.response))

(* memories_data.get("results", []) raises unless memories_data is a dict *)
MemoryRoute(op, memories_data, detail) ==
    LET crashed == memories_data.type # "dict"
        memories == Memories(Get(memories_data.items, "results", <<>>),
                             "memory", "memory", None)
    IN  Applied(op, "memory_routes", FALSE, IF crashed THEN 500 ELSE 200,
                IF crashed THEN [detail |-> detail]
                ELSE [success |-> Get(memories_data.items, "success", FALSE),
                      memories |-> memories, count |-> Len(memories)])

retrieve_memories ==
    MemoryRoute("POST /memory/retrieve",
                AgentService_retrieve_memories(arg.response, arg.min_score,
                                               arg.max_results),
                "Memory retrieval failed")

list_memories ==
    MemoryRoute("GET /memory/list",
                AgentService_list_all_memories(arg.response),
                "Memory listing failed")

(* for mem in memories_data raises unless memories_data is a list of dicts *)
LegacyMemoryRoute(op, memories_data, detail) ==
    LET crashed == memories_data.type # "list"
        memories == Memories(memories_data.items, "content", "text", <<>>)
    IN  Applied(op, "routes", FALSE, IF crashed THEN 500 ELSE 200,
                IF crashed THEN [detail |-> detail]
                ELSE [success |-> TRUE, memories |-> memories,
                      count |-> Len(memories)])

routes_retrieve_memories ==
    LegacyMemoryRoute("POST /memory/retrieve (routes.py)",
                      AgentService_retrieve_memories(arg.response, arg.min_score,
                                                     arg.max_results),
                      "Memory retrieval failed")

routes_list_memories ==
    LegacyMemoryRoute("GET /memory/list (routes.py)",
                      AgentService_list_all_memories(arg.response),
                      "Memory listing failed")

(* Allocation functions, applied to the arguments in `arg` *)

Computed(op, result) ==
    /\ last' = Call(op, "utils", None, None, None, 0, FALSE, result.raised, 0,
                    result)
    /\ UNCHANGED <<agentVars, db, memory, arg, cacheVars, loop>>

Growth ==
    Computed("create_growth_portfolio",
             create_growth_portfolio(arg.metrics, arg.allocation_method))

Diversified ==
    Computed("create_diversified_portfolio",
             create_diversified_portfolio(arg.metrics, arg.max_allocation))

----------------------------------------------------------------------------
(* Portfolio orchestration.  orchestrate_portfolio builds an orchestrator  *)
(* and calls it; until the call returns, the language model calls the      *)
(* tools of the specialists, one step each.  The handlers are coroutines   *)
(* that call the service synchronously, so no other handler runs while a   *)
(* run is in flight.                                                       *)

PortfolioCall(op, raised, status, result) ==
    Call(op, "portfolio_routes", None, None, None, 0, FALSE, raised, status, result)

orchestrate_portfolio_enter ==
    /\ ~orchestration.active
    /\ orchestration' = [active |-> TRUE, written |-> {}]
    /\ last' = PortfolioCall("orchestrator", FALSE, 0, [none |-> TRUE])
    /\ UNCHANGED <<agentVars, db, memory, arg, cached_stock_data, cached_visualizations, loop>>

(* One tool call of a specialist: the caches it leaves and the keys of    *)
(* cached_stock_data it has written, which are those the tool puts into    *)
(* an empty cache                                                          *)
ToolCall(name, cache, charts, keys) ==
    /\ orchestration.active
    /\ cached_stock_data' = cache
    /\ cached_visualizations' = charts
    /\ orchestration' = [orchestration EXCEPT !.written = @ \cup keys]
    /\ last' = PortfolioCall(name, FALSE, 0, [none |-> TRUE])
    /\ UNCHANGED <<agentVars, db, memory, arg, loop>>

stock_data_agent(fetched, comprehensive) ==
    IF comprehensive
    THEN ToolCall("stock_data_fetch", stock_data_fetch(cached_stock_data, fetched),
                  cached_visualizations, DOMAIN stock_data_fetch(NoEntries, fetched))
    ELSE ToolCall("stock_analysis_fetch", stock_analysis_fetch(cached_stock_data, fetched),
                  cached_visualizations, DOMAIN stock_analysis_fetch(NoEntries, fetched))

growth_strategy_agent(analysis_data) ==
    ToolCall("create_growth_portfolio_tool",
             create_growth_portfolio_tool(cached_stock_data, analysis_data),
             cached_visualizations,
             DOMAIN create_growth_portfolio_tool(NoEntries, analysis_data))

diversified_strategy_agent(analysis_data) ==
    ToolCall("create_diversified_portfolio_tool",
             create_diversified_portfolio_tool(cached_stock_data, analysis_data),
             cached_visualizations,
             DOMAIN create_diversified_portfolio_tool(NoEntries, analysis_data))

performance_calculator_agent(portfolio, initial_investment) ==
    ToolCall("calculate_performance_tool",
             calculate_performance_tool(cached_stock_data, portfolio, initial_investment),
             cached_visualizations,
             DOMAIN calculate_performance_tool(NoEntries, portfolio, initial_investment))

visualization_agent(data, renders, allocation) ==
    IF allocation
    THEN ToolCall("create_allocation_chart", cached_stock_data,
                  create_allocation_chart(cached_visualizations, data, renders), {})
    ELSE ToolCall("create_performance_chart", cached_stock_data,
                  create_performance_chart(cached_visualizations, data, renders), {})

validation_agent(portfolio, historical_data, outcome) ==
    ToolCall("validate_portfolio",
             validate_portfolio(cached_stock_data, portfolio, historical_data, outcome),
             cached_visualizations,
             DOMAIN validate_portfolio(NoEntries, portfolio, historical_data, outcome))

(* The orchestrator returns or raises; the handler answers 200 either way *)
orchestrate_portfolio(completes) ==
    /\ orchestration.active
    /\ orchestration' = [orchestration EXCEPT !.active = FALSE]
    /\ last' = PortfolioCall("POST /portfolio/orchestrate", FALSE, 200,
                  IF completes
                  THEN [success |-> TRUE,
                        cached_portfolios |-> get_cached_portfolios(cached_stock_data),
                        visualizations_available |->
                            DOMAIN get_cached_visualizations(cached_visualizations) # {}]
                  ELSE [success |-> FALSE])
    /\ UNCHANGED <<agentVars, db, memory, arg, cached_stock_data, cached_visualizations, loop>>

get_portfolio_data ==
    /\ ~orchestration.active
    /\ last' = PortfolioCall("GET /portfolio/data", FALSE, 200,
                  [success |-> TRUE,
                   portfolios |-> get_cached_portfolios(cached_stock_data)])
    /\ UNCHANGED <<agentVars, db, memory, arg, cacheVars, loop>>

clear_cache_route ==
    LET r == clear_cache(cached_stock_data, cached_visualizations)
    IN  /\ ~orchestration.active
        /\ cached_stock_data' = r.cache
        /\ cached_visualizations' = r.charts
        /\ last' = PortfolioCall("DELETE /portfolio/cache", FALSE, 200, [success |-> TRUE])
        /\ UNCHANGED <<agentVars, db, memory, arg, orchestration, loop>>

----------------------------------------------------------------------------
(* POST /chat under concurrent requests.  The server accepts any number of *)
(* requests and turns each into a task of one event loop; the loop runs    *)
(* its ready tasks first in, first out.  chat_with_agent is a coroutine    *)
(* whose body calls service.chat synchronously and awaits nothing, so once *)
(* the loop has entered a handler no other handler runs until it returns.  *)
(* A handler's steps are the statements of get_or_create_agent and of      *)
(* chat; loop.handler lists the requests in their order of arrival.        *)

(* Whether the loop may run the next step of request r *)
MayStep_preemptive(running, r, started) == TRUE

MayStep(running, r, started) == IF started THEN running = r ELSE running = 0

Queued(l) == {r \in DOMAIN l.handler : l.handler[r].pc = "queued"}

(* The requests whose handler the loop may enter next *)
NextHandler_any(l) == Queued(l)

NextHandler(l) == {r \in Queued(l) : \A q \in Queued(l) : r <= q}

HandlerStep(r, pc, fields) ==
    /\ r \in DOMAIN loop.handler
    /\ loop.handler[r].pc = pc
    /\ MayStep(loop.running, r, TRUE)
    /\ loop' = [loop EXCEPT !.handler[r] = fields @@ @]

chat_arrive(user_id) ==
    /\ Len(loop.handler) < MaxRequests
    /\ loop' = [loop EXCEPT !.handler =
                   Append(@, [pc |-> "queued", user_id |-> user_id, agent |-> 0,
                              user_seq |-> 0, assistant_seq |-> 0,
                              overlaps |-> \E r \in DOMAIN loop.handler :
                                               loop.handler[r].pc # "done"])]
    /\ UNCHANGED <<agentVars, last, db, memory, arg, cacheVars>>

chat_enter(r) ==
    /\ r \in NextHandler(loop)
    /\ MayStep(loop.running, r, FALSE)
    /\ loop' = [loop EXCEPT !.running = r, !.handler[r].pc = "lookup"]
    /\ UNCHANGED <<agentVars, last, db, memory, arg, cacheVars>>

(* if agent_key in self.agents: return self.agents[agent_key] *)
chat_lookup(r) ==
    LET cache == agents["chat_routes"]
        agent_key == AgentService_agent_key(loop.handler[r].user_id, MEMORY)
    IN  /\ r \in DOMAIN loop.handler
        /\ IF agent_key \in DOMAIN cache
           THEN HandlerStep(r, "lookup", [pc |-> "invoke", agent |-> cache[agent_key]])
           ELSE HandlerStep(r, "lookup", [pc |-> "create"])
        /\ UNCHANGED <<agentVars, last, db, memory, arg, cacheVars>>

(* agent = self._create_memory_agent(user_id, initial_state) *)
chat_create(r) ==
    /\ HandlerStep(r, "create", [pc |-> "insert", agent |-> Len(heap) + 1])
    /\ heap' = Append(heap, AgentService_construct(MEMORY, None))
    /\ UNCHANGED <<agents, mgrAgents, mgrModel, enableMemory, turns, pending>>
    /\ UNCHANGED <<last, db, memory, arg, cacheVars>>

(* self.agents[agent_key] = agent *)
chat_insert(r) ==
    /\ HandlerStep(r, "insert", [pc |-> "invoke"])
    /\ agents' = [agents EXCEPT !["chat_routes"] =
                     Put(@, AgentService_agent_key(loop.handler[r].user_id, MEMORY),
                         loop.handler[r].agent)]
    /\ UNCHANGED <<heap, mgrAgents, mgrModel, enableMemory, turns, pending>>
    /\ UNCHANGED <<last, db, memory, arg, cacheVars>>

(* result = agent(message): the agent appends the user's message, calls    *)
(* the model, and appends the reply unless the call fails                  *)
chat_invoke(r) ==
    /\ r \in DOMAIN loop.handler
    /\ HandlerStep(r, "invoke", [pc |-> "complete",
                                 user_seq |-> heap[loop.handler[r].agent].total + 1])
    /\ heap' = [heap EXCEPT ![loop.handler[r].agent] = AppendMessage(@, "user")]
    /\ turns' = turns + 1
    /\ UNCHANGED <<agents, mgrAgents, mgrModel, enableMemory, pending>>
    /\ UNCHANGED <<last, db, memory, arg, cacheVars>>

chat_complete(r, completes) ==
    /\ r \in DOMAIN loop.handler
    /\ HandlerStep(r, "complete",
                   [pc |-> "return",
                    assistant_seq |-> IF completes
                                      THEN heap[loop.handler[r].agent].total + 1 ELSE 0])
    /\ heap' = [heap EXCEPT ![loop.handler[r].agent] =
                   IF completes THEN apply_management(AppendMessage(@, "assistant"))
                   ELSE apply_management(@)]
    /\ UNCHANGED <<agents, mgrAgents, mgrModel, enableMemory, turns, pending>>
    /\ UNCHANGED <<last, db, memory, arg, cacheVars>>

chat_return(r) ==
    /\ r \in DOMAIN loop.handler
    /\ loop.handler[r].pc = "return"
    /\ MayStep(loop.running, r, TRUE)
    /\ loop' = [loop EXCEPT !.running = 0, !.handler[r].pc = "done"]
    /\ last' = Call("POST /chat", "chat_routes", loop.handler[r].user_id, MEMORY, None,
                    loop.handler[r].agent, FALSE, loop.handler[r].assistant_seq = 0,
                    IF loop.handler[r].assistant_seq = 0 THEN 500 ELSE 200,
                    [none |-> TRUE])
    /\ UNCHANGED <<agentVars, db, memory, arg, cacheVars>>

----------------------------------------------------------------------------
(* Route handlers.  A request is [message, user_id, agent_type, session_id]; *)
(* agent_type is the kind the caller asks for.                               *)

ChatOutcome(s, request, user_id, agent_type, completes, op) ==
    LET r == AgentService_chat(agents[s], heap, user_id, agent_type,
                               request.session_id, completes)
        ok == ~r.raised /\ Validates(ChatResponse_required, r.result)
    IN  /\ turns' = turns + 1
        /\ agents' = [agents EXCEPT ![s] = r.cache]
        /\ heap' = r.heap
        /\ pending' = IF r.agent = 0 THEN pending
                      ELSE [pending EXCEPT ![s] = @ \ {<<user_id, agent_type>>}]
        /\ last' = Call(op, s, user_id, request.agent_type, request.session_id,
                        r.agent, r.agent > Len(heap), r.raised,
                        IF ok THEN 200 ELSE 500,
                        IF ok THEN r.result ELSE [detail |-> "Chat failed"])
        /\ UNCHANGED <<mgrAgents, mgrModel, enableMemory>>
        /\ UNCHANGED <<db, memory, arg, cacheVars, loop>>

chat_with_agent(request, completes) ==
    LET user_id == IF request.user_id # None THEN request.user_id
                   ELSE default_user_id
        agent_type == MEMORY
    IN  ChatOutcome("chat_routes", request, user_id, agent_type, completes,
                    "POST /chat")

routes_chat_with_agent(request, completes) ==
    LET user_id == IF request.user_id # None THEN request.user_id
                   ELSE default_user_id
        agent_type == IF request.session_id # None THEN request.session_id
                      ELSE MEMORY
    IN  ChatOutcome("routes", request, user_id, agent_type, completes,
                    "POST /chat (routes.py)")

get_agent_state(user_id, reads) ==
    LET s == "agent_routes"
        r == AgentService_get_agent_state(agents[s], heap, user_id, reads)
        ok == Validates(AgentStateResponse_required, r.result)
    IN  /\ agents' = [agents EXCEPT ![s] = r.cache]
        /\ heap' = r.heap
        /\ pending' = [pending EXCEPT ![s] = @ \ {<<user_id, MEMORY>>}]
        /\ last' = Call("GET /agent/state", s, user_id, MEMORY, None, r.agent,
                        r.agent > Len(heap), ~reads, IF ok THEN 200 ELSE 500,
                        r.result)
        /\ UNCHANGED <<mgrAgents, mgrModel, enableMemory, turns>>
        /\ UNCHANGED <<db, memory, arg, cacheVars, loop>>

get_conversation_history(user_id, reads) ==
    LET s == "agent_routes"
        r == AgentService_get_conversation_history(agents[s], heap, user_id,
                                                   reads)
    IN  /\ agents' = [agents EXCEPT ![s] = r.cache]
        /\ heap' = r.heap
        /\ pending' = [pending EXCEPT ![s] = @ \ {<<user_id, MEMORY>>}]
        /\ last' = Call("GET /agent/history", s, user_id, MEMORY, None, r.agent,
                        r.agent > Len(heap), ~reads, 200,
                        [user_id |-> user_id, session_id |-> None,
                         messages |-> r.result, count |-> Len(r.result)])
        /\ UNCHANGED <<mgrAgents, mgrModel, enableMemory, turns>>
        /\ UNCHANGED <<db, memory, arg, cacheVars, loop>>

reset_agent(user_id) ==
    LET s == "agent_routes"
        cache == AgentService_reset_agent(agents[s], user_id)
        ag == [agents EXCEPT ![s] = cache]
    IN  /\ agents' = ag
        /\ heap' = Collect(heap, ag, mgrAgents, mgrModel)
        /\ pending' = [pending EXCEPT ![s] = @ \cup ({user_id} \X AgentKinds)]
        /\ last' = Call("POST /agent/reset", s, user_id, None, None, 0, FALSE,
                        FALSE, 200, [success |-> TRUE])
        /\ UNCHANGED <<mgrAgents, mgrModel, enableMemory, turns>>
        /\ UNCHANGED <<db, memory, arg, cacheVars, loop>>

----------------------------------------------------------------------------
(* Specifications *)

Init ==
    /\ agents = [s \in Services |-> EmptyCache]
    /\ heap = <<>>
    /\ mgrAgents = EmptyCache
    /\ mgrModel = 0
    /\ enableMemory \in BOOLEAN
    /\ turns = 0
    /\ pending = [s \in Services |-> {}]
    /\ last = NoCall
    /\ db = <<>>
    /\ memory \in BOOLEAN
    /\ arg = NoArg
    /\ cached_stock_data = NoEntries
    /\ cached_visualizations = NoEntries
    /\ orchestration = NoRun
    /\ loop = NoRequests

(* The cache of one AgentService instance, driven through its methods *)

Room(s, user_id, agent_type) ==
    \/ AgentService_agent_key(user_id, agent_type) \in DOMAIN agents[s]
    \/ Len(heap) < MaxAgents

CacheGetOrCreate ==
    \E u \in UserIds, k \in CacheKinds :
        /\ Room(DirectService, u, k)
        /\ SvcGetOrCreate(DirectService, u, k, None)

CacheChat ==
    \E u \in UserIds, k \in CacheKinds :
        /\ turns < MaxCacheTurns
        /\ Room(DirectService, u, k)
        /\ SvcChat(DirectService, u, k, None, TRUE)

CacheReset == \E u \in UserIds : SvcReset(DirectService, u)

CacheNext == CacheGetOrCreate \/ CacheChat \/ CacheReset

SpecCache == Init /\ [][CacheNext]_vars

(* The conversations of one user with the agents of one AgentService *)

WindowChat ==
    \E k \in WindowKinds, c \in BOOLEAN :
        /\ turns < MaxTurns
        /\ SvcChat(DirectService, <<"u">>, k, None, c)

WindowNext == WindowChat

SpecWindow == Init /\ [][WindowNext]_vars

(* The two registries side by side *)

MgrKinds == {MEMORY, BOGUS, <<"memory", "_", "s">>}
MgrSessions == {None, <<"s", "_", "default">>}

MgrInit ==
    \E hasKey \in BOOLEAN :
        /\ agents = [s \in Services |-> EmptyCache]
        /\ heap = IF hasKey THEN <<>> ELSE <<AgentManager_fallback_agent>>
        /\ mgrAgents = EmptyCache
        /\ mgrModel = IF hasKey THEN 0 ELSE 1
        /\ enableMemory \in BOOLEAN
        /\ turns = 0
        /\ pending = [s \in Services |-> {}]
        /\ last = NoCall
        /\ db = <<>>
        /\ memory \in BOOLEAN
        /\ arg = NoArg
        /\ cached_stock_data = NoEntries
        /\ cached_visualizations = NoEntries
        /\ orchestration = NoRun
        /\ loop = NoRequests

MgrRoom(user_id, agent_type, session_id) ==
    \/ mgrModel # 0
    \/ AgentManager_agent_key(user_id, agent_type, session_id) \in DOMAIN mgrAgents
    \/ Len(heap) < MaxAgents

MgrResolve ==
    \E k \in MgrKinds, ss \in MgrSessions :
        /\ MgrRoom(<<"u">>, k, ss)
        /\ MgrGetOrCreate(<<"u">>, k, ss)

MgrTurn ==
    \E k \in MgrKinds, ss \in MgrSessions, o \in RunOutcomes :
        /\ turns < MaxCacheTurns
        /\ MgrRoom(<<"u">>, k, ss)
        /\ MgrChat(<<"u">>, k, ss, o)

MgrSvcResolve ==
    \E k \in MgrKinds :
        /\ Room(DirectService, <<"u">>, k)
        /\ SvcGetOrCreate(DirectService, <<"u">>, k, None)

MgrNext == MgrResolve \/ MgrTurn \/ MgrSvcResolve

SpecMgr == MgrInit /\ [][MgrNext]_vars

(* The AgentManager cache shared by two users, with and without an API key *)

TenantUsers == {<<"u">>, <<"w">>}
TenantKinds == {MEMORY, <<"memory", "_", "s">>}
TenantSessions == {<<"default">>, <<"s", "_", "default">>}

TenantResolve ==
    \E u \in TenantUsers, k \in TenantKinds, ss \in TenantSessions :
        /\ MgrRoom(u, k, ss)
        /\ MgrGetOrCreate(u, k, ss)

TenantTurn ==
    \E u \in TenantUsers, k \in TenantKinds, ss \in TenantSessions, o \in RunOutcomes :
        /\ turns < MaxCacheTurns
        /\ MgrRoom(u, k, ss)
        /\ MgrChat(u, k, ss, o)

TenantNext == TenantResolve \/ TenantTurn

SpecTenants == MgrInit /\ [][TenantNext]_vars

(* Concurrent chat requests of two users *)

LoopInit ==
    /\ agents = [s \in Services |-> EmptyCache]
    /\ heap = <<>>
    /\ mgrAgents = EmptyCache
    /\ mgrModel = 0
    /\ enableMemory \in BOOLEAN
    /\ turns = 0
    /\ pending = [s \in Services |-> {}]
    /\ last = NoCall
    /\ db = <<>>
    /\ memory = TRUE
    /\ arg = NoArg
    /\ cached_stock_data = NoEntries
    /\ cached_visualizations = NoEntries
    /\ orchestration = NoRun
    /\ loop = NoRequests

LoopNext ==
    \/ \E u \in TenantUsers : chat_arrive(u)
    \/ \E r \in 1..MaxRequests :
           \/ chat_enter(r)
           \/ chat_lookup(r)
           \/ chat_create(r)
           \/ chat_insert(r)
           \/ chat_invoke(r)
           \/ \E completes \in BOOLEAN : chat_complete(r, completes)
           \/ chat_return(r)

SpecLoop == LoopInit /\ [][LoopNext]_vars

(* Storing memories and preferences *)

Contents == {<<"c">>, <<"p">>}

StoreRoom == Len(db) < MaxStored

StoreMS ==
    \E c \in Contents, o \in StoreOutcomes : StoreRoom /\ MemStore(<<"u">>, c, o)

StoreInitMS ==
    \E c \in Contents, o \in StoreOutcomes :
        StoreRoom /\ MemInitPrefs(<<"u">>, c, o)

StoreAS ==
    \E c \in Contents, o \in StoreOutcomes : StoreRoom /\ SvcStore(<<"u">>, c, o)

StoreInitAS ==
    \E c \in Contents, o \in StoreOutcomes :
        StoreRoom /\ SvcInitPrefs(<<"u">>, c, o)

StoreRoute ==
    \E c \in Contents, o \in StoreOutcomes :
        StoreRoom /\ store_memory(<<"u">>, c, o)

StoreInitRoute ==
    \E c \in Contents, o \in StoreOutcomes :
        StoreRoom /\ initialize_preferences(<<"u">>, c, o)

StoreNext ==
    StoreMS \/ StoreInitMS \/ StoreAS \/ StoreInitAS \/ StoreRoute
    \/ StoreInitRoute

SpecStore == Init /\ [][StoreNext]_vars

(* Retrieving and listing memories: every response of the backend *)

BoundedSeq(S, n) == UNION {[1..k -> S] : k \in 0..n}

Items ==
    {[id |-> <<"m">>, memory |-> <<"text">>, score |-> s] : s \in 0..ScoreSteps}
    \cup {[id |-> <<"m">>, memory |-> <<"text">>]}

Responses ==
    {[raises |-> TRUE, results |-> <<>>]} \cup
    {[raises |-> FALSE, results |-> r] : r \in BoundedSeq(Items, MaxResp)}

RetrieveArgs ==
    [fn : {"retrieve"}, user_id : {<<"u">>}, response : Responses,
     min_score : 0..ScoreSteps, max_results : 1..MaxResults]

RetrieveInit ==
    /\ agents = [s \in Services |-> EmptyCache]
    /\ heap = <<>>
    /\ mgrAgents = EmptyCache
    /\ mgrModel = 0
    /\ enableMemory = TRUE
    /\ turns = 0
    /\ pending = [s \in Services |-> {}]
    /\ last = NoCall
    /\ db = <<>>
    /\ memory \in BOOLEAN
    /\ arg \in RetrieveArgs
    /\ cached_stock_data = NoEntries
    /\ cached_visualizations = NoEntries
    /\ orchestration = NoRun
    /\ loop = NoRequests

RetrieveNext ==
    \/ MemRetrieve \/ MemList \/ SvcRetrieve \/ SvcList
    \/ retrieve_memories \/ list_memories
    \/ routes_retrieve_memories \/ routes_list_memories

SpecRetrieve == RetrieveInit /\ [][RetrieveNext]_vars

(* Allocation: every metrics table *)

TickerNames == <<"AAPL", "MSFT", "GOOG", "AMZN", "NVDA">>

Returns == {-5, 0, 10}
Volatilities == {0, 1, 2}

MetricsData ==
    {[annual_return |-> ret, volatility |-> vol] :
        ret \in Returns, vol \in Volatilities}
    \cup {[return_pct |-> 10, volatility_pct |-> 2],
          [annual_return |-> 20, volatility |-> 1],
          [annual_return |-> 25000, volatility |-> 0]}

MetricsTables ==
    UNION {[{TickerNames[i] : i \in 1..n} -> MetricsData] : n \in 1..MaxTickers}

AllocationMethods == {"performance_weighted", "risk_adjusted", "equal_weight"}

AllocArgs ==
    [fn : {"allocate"}, metrics : MetricsTables,
     allocation_method : AllocationMethods, max_allocation : {30, 100}]

AllocInit ==
    /\ agents = [s \in Services |-> EmptyCache]
    /\ heap = <<>>
    /\ mgrAgents = EmptyCache
    /\ mgrModel = 0
    /\ enableMemory = TRUE
    /\ turns = 0
    /\ pending = [s \in Services |-> {}]
    /\ last = NoCall
    /\ db = <<>>
    /\ memory = TRUE
    /\ arg \in AllocArgs
    /\ cached_stock_data = NoEntries
    /\ cached_visualizations = NoEntries
    /\ orchestration = NoRun
    /\ loop = NoRequests

AllocNext == Growth \/ Diversified

SpecAlloc == AllocInit /\ [][AllocNext]_vars

(* Portfolio orchestration: what the language model passes to the tools *)

OrchMetrics ==
    {[t \in {"AAPL"} |-> [annual_return |-> 10, volatility |-> 2]],
     [t \in {"AAPL"} |-> [annual_return |-> 10, volatility |-> 0]],
     [t \in {"AAPL", "MSFT"} |-> [annual_return |-> 10, volatility |-> 2]]}

StockData == {PyDict([summary_metrics |-> m]) : m \in OrchMetrics}

Fetches == {[raised |-> TRUE]} \cup {[raised |-> FALSE, data |-> d] : d \in StockData}

Portfolios ==
    {PyDict([allocation |-> [t \in {"AAPL"} |-> 10000]]), PyDict(NoEntries)}

Investments == {1000}

OrchInit ==
    /\ agents = [s \in Services |-> EmptyCache]
    /\ heap = <<>>
    /\ mgrAgents = EmptyCache
    /\ mgrModel = 0
    /\ enableMemory = TRUE
    /\ turns = 0
    /\ pending = [s \in Services |-> {}]
    /\ last = NoCall
    /\ db = <<>>
    /\ memory = TRUE
    /\ arg = NoArg
    /\ cached_stock_data = NoEntries
    /\ cached_visualizations = NoEntries
    /\ orchestration = NoRun
    /\ loop = NoRequests

OrchNext ==
    \/ orchestrate_portfolio_enter
    \/ \E fetched \in Fetches, comprehensive \in BOOLEAN :
           stock_data_agent(fetched, comprehensive)
    \/ \E analysis_data \in StockData \cup {PyDict(NoEntries)} :
           growth_strategy_agent(analysis_data)
    \/ \E analysis_data \in StockData \cup {PyDict(NoEntries)} :
           diversified_strategy_agent(analysis_data)
    \/ \E portfolio \in Portfolios, initial_investment \in Investments :
           performance_calculator_agent(portfolio, initial_investment)
    \/ \E data \in Portfolios, renders \in BOOLEAN, allocation \in BOOLEAN :
           visualization_agent(data, renders, allocation)
    \/ \E portfolio \in Portfolios, historical_data \in StockData, outcome \in BOOLEAN :
           validation_agent(portfolio, historical_data, outcome)
    \/ \E completes \in BOOLEAN : orchestrate_portfolio(completes)
    \/ get_portfolio_data
    \/ clear_cache_route

SpecOrch == OrchInit /\ [][OrchNext]_vars

(* The HTTP entry points *)

RouteUsers == {None, <<"u">>}
RouteKinds == {MEMORY, BASIC}
RouteSessions == {None, <<"s">>, BASIC}

Requests ==
    [message : {<<"hello">>}, user_id : RouteUsers, agent_type : RouteKinds,
     session_id : RouteSessions]

RouteRoom(s, user_id, agent_type) ==
    Room(s, IF user_id # None THEN user_id ELSE default_user_id, agent_type)

RouteChat ==
    \E request \in Requests, c \in BOOLEAN :
        /\ turns < MaxCacheTurns + 1
        /\ RouteRoom("chat_routes", request.user_id, MEMORY)
        /\ chat_with_agent(request, c)

RouteChatLegacy ==
    \E request \in Requests, c \in BOOLEAN :
        /\ turns < MaxCacheTurns + 1
        /\ RouteRoom("routes", request.user_id,
                     IF request.session_id # None THEN request.session_id
                     ELSE MEMORY)
        /\ routes_chat_with_agent(request, c)

RouteState ==
    \E u \in RouteUsers \ {None}, reads \in BOOLEAN :
        /\ RouteRoom("agent_routes", u, MEMORY)
        /\ get_agent_state(u, reads)

RouteHistory ==
    \E u \in RouteUsers \ {None}, reads \in BOOLEAN :
        /\ RouteRoom("agent_routes", u, MEMORY)
        /\ get_conversation_history(u, reads)

RouteReset == \E u \in RouteUsers \ {None} : reset_agent(u)

RouteNext ==
    RouteChat \/ RouteChatLegacy \/ RouteState \/ RouteHistory \/ RouteReset

SpecRoutes == Init /\ [][RouteNext]_vars

(* The state and history endpoints next to chat turns and resets *)

ProjectionChat ==
    \E u \in RouteUsers, c \in BOOLEAN :
        /\ turns < MaxCacheTurns + 1
        /\ RouteRoom("chat_routes", u, MEMORY)
        /\ chat_with_agent([message |-> <<"hello">>, user_id |-> u,
                            agent_type |-> MEMORY, session_id |-> None], c)

ProjectionNext == ProjectionChat \/ RouteState \/ RouteHistory \/ RouteReset

SpecProjections == Init /\ [][ProjectionNext]_vars

----------------------------------------------------------------------------
(* Claims about the cache of an AgentService *)

Cached(s, user_id, agent_type) ==
    AgentService_agent_key(user_id, agent_type) \in DOMAIN agents[s]

CachedAgent(s, user_id, agent_type) ==
    agents[s][AgentService_agent_key(user_id, agent_type)]

\* C1: the agent cached for (user, kind) stays the cached one in every step
\* that is not a reset of that user, and a resolve of (user, kind) returns it:
\* resolving the same key twice with no reset of that user in between
\* returns the identical instance.
C1_SameInstanceUntilReset ==
    [][\A u \in UserIds, k \in AgentKinds :
          (/\ Cached(DirectService, u, k)
           /\ ~(last'.op = "reset_agent" /\ last'.user_id = u))
          => /\ Cached(DirectService, u, k)'
             /\ CachedAgent(DirectService, u, k)' = CachedAgent(DirectService, u, k)
             /\ (/\ last'.op \in {"get_or_create_agent", "chat"}
                 /\ last'.user_id = u
                 /\ last'.agent_type = k)
                => last'.agent = CachedAgent(DirectService, u, k)]_vars

\* C2: the first resolve of (user, kind) after reset(user) returns an agent
\* constructed by that very call (so none cached before the reset) with an
\* empty window; through chat, the window holds that one turn only.
C2_FreshAfterReset ==
    [][(/\ last'.op \in {"get_or_create_agent", "chat"}
        /\ last'.agent # 0
        /\ <<last'.user_id, last'.agent_type>> \in pending[last'.svc])
       => /\ last'.agent > Len(heap)
          /\ last'.op = "get_or_create_agent"
             => /\ heap'[last'.agent].messages = <<>>
                /\ heap'[last'.agent].total = 0
          /\ last'.op = "chat"
             => heap'[last'.agent].total = Len(heap'[last'.agent].messages)]_vars

C2_Witness ==
    /\ last.op = "get_or_create_agent"
    /\ last.created
    /\ turns > 0
    /\ \E i \in 1..Len(heap) : ~heap[i].alive
    /\ <<last.user_id, last.agent_type>> \notin pending[last.svc]
    /\ \E k \in AgentKinds : <<last.user_id, k>> \in pending[last.svc]
    /\ heap[last.agent].messages = <<>>

\* C3: reset(u) removes every cached agent of u and leaves every cached
\* agent of every other user cached, with the same instance.
C3_ResetRemovesExactlyThatUser ==
    [][\A s \in Services, u \in UserIds :
          (last'.op = "reset_agent" /\ last'.svc = s /\ last'.user_id = u)
          => /\ ~last'.raised
             /\ \A v \in UserIds, k \in AgentKinds :
                   IF v = u
                   THEN ~Cached(s, v, k)'
                   ELSE Cached(s, v, k)
                        => /\ Cached(s, v, k)'
                           /\ CachedAgent(s, v, k)' = CachedAgent(s, v, k)]_vars

----------------------------------------------------------------------------
(* Claims about the conversation window *)

WindowWithin(a) ==
    /\ Len(a.messages) <= conversation_window_size
    /\ \A i \in 1..Len(a.messages) :
          a.messages[i].seq = a.total - Len(a.messages) + i
    /\ a.total >= conversation_min_messages
       => Len(a.messages) >= conversation_min_messages

C9_TurnAllOrNothing ==
    [][(last'.op = "chat" /\ last'.agent # 0)
       => LET before == IF last'.created THEN <<>> ELSE heap[last'.agent].messages
              count == IF last'.created THEN 0 ELSE heap[last'.agent].total
              after == heap'[last'.agent]
          IN  IF last'.raised
              THEN after.messages = before
              ELSE /\ after.total = count + 2
                   /\ after.messages[Len(after.messages) - 1].role = "user"
                   /\ after.messages[Len(after.messages)].role = "assistant"]_vars

----------------------------------------------------------------------------
(* Claims about the HTTP entry points *)

ChatOps == {"POST /chat", "POST /chat (routes.py)"}

(* C4: two consecutive chat turns of one user for one kind whose session   *)
(* ids differ are served by two distinct agent instances.                  *)
C4_SessionsGetDistinctAgents ==
    [][(/\ last.op = "POST /chat" /\ last'.op = "POST /chat"
        /\ last.agent # 0 /\ last'.agent # 0
        /\ last'.user_id = last.user_id
        /\ last'.agent_type = last.agent_type
        /\ last'.session_id # last.session_id)
       => last'.agent # last.agent]_vars

(* C5: a chat turn that requests kind k is handled by the agent cached for *)
(* that user and kind k.                                                   *)
C5_RequestedKindSelectsAgent ==
    (last.op \in ChatOps /\ last.agent # 0) =>
        /\ Cached(last.svc, last.user_id, last.agent_type)
        /\ CachedAgent(last.svc, last.user_id, last.agent_type) = last.agent

(* C7: the state and history entry points observe the agent the chat entry *)
(* point cached for the user, and the reset entry point removes it.        *)
C7_EntryPointsShareCache ==
    /\ (/\ last.op \in {"GET /agent/state", "GET /agent/history"}
        /\ Cached("chat_routes", last.user_id, MEMORY))
       => last.agent = CachedAgent("chat_routes", last.user_id, MEMORY)
    /\ last.op = "POST /agent/reset"
       => ~Cached("chat_routes", last.user_id, MEMORY)

(* C10: when the completion returns a reply the chat entry point answers   *)
(* with a success response carrying reply, user id and message count.      *)
C10_ReplyMeansSuccess ==
    (last.op = "POST /chat" /\ ~last.raised) =>
        /\ last.status = 200
        /\ ChatResponse_required \subseteq DOMAIN last.result

----------------------------------------------------------------------------
(* Claims about unknown kinds *)

ResolveOps == {"get_or_create_agent", "AgentManager.get_or_create_agent"}

----------------------------------------------------------------------------
(* Claims about storing memories *)

StoreOps ==
    {"MemoryService.store_memory", "AgentService.store_memory",
     "POST /memory/store"}

BackendDown ==
    \/ arg.outcome.raises
    \/ last.svc = "memory_service" /\ ~memory

(* C14: store never raises; when the backend is unavailable or its call   *)
(* fails the result has success = FALSE and no memory id, and the store   *)
(* entry point answers with a response whose success is FALSE.            *)
C14_StoreFailsSoftly ==
    last.op \in StoreOps =>
        /\ ~last.raised
        /\ BackendDown =>
              IF last.op = "POST /memory/store"
              THEN /\ last.status = 200
                   /\ last.result.success = FALSE
                   /\ last.result.memory_id = None
              ELSE /\ last.result.success = FALSE
                   /\ Get(last.result, "result", PyNone) = PyNone

C14_Witness ==
    /\ last.op = "POST /memory/store"
    /\ arg.outcome.raises
    /\ last.status = 200
    /\ last.result.success = FALSE
    /\ db = <<>>

InitOps ==
    {"MemoryService.initialize_user_preferences",
     "AgentService.initialize_user_preferences"}

StoreWithPrefix(svc, prefix, user_id, text, outcome) ==
    IF svc = "memory_service"
    THEN MemoryService_store_memory(memory, db, user_id, prefix \o text, outcome)
    ELSE AgentService_store_memory(db, user_id, prefix \o text, outcome)

(* C15 as stated: initialize_preferences(user, text) writes what           *)
(* store(user, "USER PREFERENCES: " + text) writes and succeeds when it    *)
(* does, in either service.                                                *)
C15_InitializeIsStoreUpperCase ==
    [][last'.op \in InitOps =>
         LET r == StoreWithPrefix(last'.svc, <<"USER PREFERENCES: ">>,
                                  last'.user_id, arg'.text, arg'.outcome)
         IN  db' = r.db /\ last'.result.success = r.result.success]_vars

(* C15: initialize_user_preferences(user, text) writes what store_memory   *)
(* of the same service writes for the service's prefix followed by text    *)
(* ("USER PREFERENCES: " in MemoryService, "User preferences: " in         *)
(* AgentService) and has the same success flag, whatever the backend does. *)
C15_InitializeIsStoreOwnPrefix ==
    [][last'.op \in InitOps =>
         LET prefix == IF last'.svc = "memory_service" THEN MemoryService_PREFIX
                       ELSE AgentService_PREFIX
             r == StoreWithPrefix(last'.svc, prefix, last'.user_id, arg'.text,
                                  arg'.outcome)
         IN  db' = r.db /\ last'.result.success = r.result.success]_vars

C15_Witness ==
    /\ last.op = "MemoryService.initialize_user_preferences"
    /\ last.result.success
    /\ Len(db) > 0
    /\ db[Len(db)].content = MemoryService_PREFIX \o arg.text

(* C16: a failed backend call is never reported as a success: neither      *)
(* success = TRUE nor a success message reaches the caller.                *)
C16_FailureNeverReportedAsSuccess ==
    (last.op = "POST /preferences/initialize" /\ arg.outcome.raises) =>
        \/ last.status = 500
        \/ /\ last.result.success = FALSE
           /\ last.result.message # "User preferences initialized successfully"

----------------------------------------------------------------------------
(* Claims about retrieving memories *)

RetrieveOps ==
    {"MemoryService.retrieve_memories", "AgentService.retrieve_memories",
     "POST /memory/retrieve", "POST /memory/retrieve (routes.py)"}

(* the items a retrieval handed to its caller *)
Returned ==
    CASE last.op = "MemoryService.retrieve_memories" -> last.result.results
      [] last.op = "AgentService.retrieve_memories" -> last.result.items
      [] last.op \in RetrieveOps /\ last.status = 200 -> last.result.memories
      [] OTHER -> <<>>

(* C11: retrieve_memories returns no item whose score is below min_score,  *)
(* whatever the backend returned.                                          *)
C11_NothingBelowMinScore ==
    last.op \in RetrieveOps =>
        \A i \in 1..Len(Returned) :
            "score" \in DOMAIN Returned[i] => Returned[i].score >= arg.min_score

(* C12: retrieve_memories returns at most max_results items, however many  *)
(* the backend returned.                                                   *)
C12_AtMostMaxResults ==
    last.op \in RetrieveOps => Len(Returned) <= arg.max_results

(* C13: the returned list is ordered by descending score.                  *)
C13_DescendingScores ==
    last.op \in RetrieveOps =>
        \A i \in 1..(Len(Returned) - 1) :
            ("score" \in DOMAIN Returned[i] /\ "score" \in DOMAIN Returned[i + 1])
                => Returned[i].score >= Returned[i + 1].score

----------------------------------------------------------------------------
(* Claims about allocation.  Weights are in hundredths of a percent. *)

AllocOps == {"create_growth_portfolio", "create_diversified_portfolio"}

Allocated == last.op \in AllocOps /\ ~last.raised

(* C17: the weights of a returned allocation sum to 100 within 0.1.        *)
C17_WeightsSumTo100 ==
    Allocated =>
        LET total == SumOver(last.result.allocation, DOMAIN last.result.allocation)
        IN  total >= 10000 - 10 /\ total <= 10000 + 10

(* C18: every weight of a returned allocation is >= 0.                     *)
C18_WeightsNonNegative ==
    Allocated =>
        \A t \in DOMAIN last.result.allocation : last.result.allocation[t] >= 0

(* C19: in risk_adjusted allocation an asset with volatility <= 0 has      *)
(* ratio 0, and when all ratios are zero every one of the N tickers gets   *)
(* 100 / N.                                                                *)
C19_ZeroRatiosFallBackToEqual ==
    (last.op = "create_growth_portfolio" /\ arg.allocation_method = "risk_adjusted")
    => LET T == DOMAIN arg.metrics
           ratios == SharpeNumerators(arg.metrics)
       IN  /\ \A t \in T : VolatilityOf(arg.metrics[t]) <= 0 => ratios[t] = 0
           /\ (\A t \in T : ratios[t] = 0) =>
                 \A t \in T :
                     last.result.allocation[t] = RoundedPercent(1, Cardinality(T))

(* C20: in performance_weighted allocation every asset has a strictly      *)
(* positive weight in the returned allocation.                             *)
C20_PerformanceWeightsPositive ==
    (/\ last.op = "create_growth_portfolio"
     /\ arg.allocation_method = "performance_weighted")
    => \A t \in DOMAIN arg.metrics : last.result.allocation[t] > 0

Abs(x) == IF x >= 0 THEN x ELSE -x

(* raw risk-adjusted weights and their capped values, as numerators over   *)
(* the sum of the ratios                                                   *)
CappedNumerators(metrics, max_allocation) ==
    LET ratios == SharpeNumerators(metrics)
        total == SumOver(ratios, DOMAIN metrics)
    IN  [t \in DOMAIN metrics |-> Min(100 * ratios[t], max_allocation * total)]

C22_PortfolioHasPerformance ==
    (last.op = "POST /portfolio/orchestrate" /\ last.result.success) =>
        (DOMAIN cached_stock_data \cap PortfolioKeys # {}
            => "performance" \in DOMAIN cached_stock_data)

(* The keys each specialist role writes, in the order of the workflow *)
RoleKeys ==
    <<{"comprehensive", "analysis"}, PortfolioKeys, {"performance"}, {"validation"}>>

(* C23: within one run no role's artifact is written before an artifact   *)
(* of every earlier role (data analysis, strategy, performance,            *)
(* validation), and a completed run that wrote a portfolio also wrote the  *)
(* validation artifact.                                                    *)
C23_RolesInFixedOrder ==
    /\ \A i \in 1..Len(RoleKeys), j \in 1..Len(RoleKeys) :
           (j < i /\ orchestration.written \cap RoleKeys[i] # {})
               => orchestration.written \cap RoleKeys[j] # {}
    /\ (last.op = "POST /portfolio/orchestrate" /\ last.result.success
            /\ orchestration.written \cap PortfolioKeys # {})
           => "validation" \in orchestration.written

(* C24: clear_cache leaves get_cached_portfolios and the visualization     *)
(* cache empty whatever they held, and no other operation removes a key    *)
(* from either cache.                                                      *)
C24_OnlyClearRemoves ==
    [][/\ last'.op = "DELETE /portfolio/cache" =>
              /\ DOMAIN get_cached_portfolios(cached_stock_data') = {}
              /\ DOMAIN get_cached_visualizations(cached_visualizations') = {}
       /\ last'.op # "DELETE /portfolio/cache" =>
              /\ DOMAIN cached_stock_data \subseteq DOMAIN cached_stock_data'
              /\ DOMAIN cached_visualizations \subseteq DOMAIN cached_visualizations'
      ]_vars

(* a clear after a run that cached a portfolio, a data set and a chart *)
C24_Witness ==
    /\ last.op = "DELETE /portfolio/cache"
    /\ {"growth_portfolio", "analysis"} \subseteq orchestration.written
    /\ cached_stock_data = NoEntries
    /\ cached_visualizations = NoEntries


(* C28: AgentService.get_or_create_agent with a kind outside the           *)
(* enumeration raises and leaves the agent cache as it was.                *)
C28_UnknownKindRaisesCacheUntouched ==
    [][(/\ last'.op = "get_or_create_agent"
        /\ last'.agent_type \notin AgentKinds)
       => (last'.raised /\ agents' = agents /\ heap' = heap)
      ]_vars


ManagerTriple(call) == <<call.user_id, call.agent_type, call.session_id>>

(* C29: the cache key of AgentManager.get_or_create_agent is injective:    *)
(* two resolves with different (user_id, agent_type, session_id) triples   *)
(* of strings never use the same cache entry.                              *)
C29_ManagerKeyInjective ==
    [][(/\ last.op = "AgentManager.get_or_create_agent"
        /\ last'.op = "AgentManager.get_or_create_agent"
        /\ last.session_id # None /\ last'.session_id # None
        /\ ManagerTriple(last) # ManagerTriple(last'))
       => AgentManager_agent_key(last.user_id, last.agent_type, last.session_id)
              # AgentManager_agent_key(last'.user_id, last'.agent_type, last'.session_id)
      ]_vars

(* C30: in AgentManager the agents cached under different keys are         *)
(* distinct instances, with or without an API key, and a chat turn of one  *)
(* user leaves the history of every agent cached for another user as it    *)
(* was.                                                                    *)
C30_TenantsIsolated ==
    [][/\ \A k1, k2 \in DOMAIN mgrAgents' :
              k1 # k2 => mgrAgents'[k1] # mgrAgents'[k2]
       /\ last'.op = "AgentManager.chat" =>
              \A u \in TenantUsers \ {last'.user_id}, k \in TenantKinds,
                 ss \in TenantSessions :
                  LET key == AgentManager_agent_key(u, k, ss)
                  IN  key \in DOMAIN mgrAgents =>
                          heap'[mgrAgents[key]].messages = heap[mgrAgents[key]].messages
      ]_vars


ProjectionOps == {"GET /agent/state", "GET /agent/history"}

(* C27: get_agent_state and get_conversation_history leave every existing  *)
(* agent (window, state, tools) as it was, and leave the agent caches as    *)
(* they were except that the cache of the service they are called on       *)
(* becomes what resolving the user's memory agent for a chat turn makes     *)
(* of it.                                                                   *)
C27_ProjectionsOnlyResolve ==
    [][last'.op \in ProjectionOps =>
          LET s == last'.svc
              turn == AgentService_chat(agents[s], heap, last'.user_id, MEMORY, None, TRUE)
          IN  /\ \A i \in 1..Len(heap) : i <= Len(heap') /\ heap'[i] = heap[i]
              /\ \A t \in Services \ {s} : agents'[t] = agents[t]
              /\ agents'[s] = turn.cache
              /\ DOMAIN agents'[s] \subseteq
                     DOMAIN agents[s] \cup {AgentService_agent_key(last'.user_id, MEMORY)}
              /\ Len(heap') = Len(turn.heap)
              /\ Len(heap') > Len(heap) =>
                     heap'[Len(heap')] = AgentService_create_memory_agent(None)
              /\ mgrAgents' = mgrAgents
      ]_vars

(* a projection that created the user's agent while another agent holds a  *)
(* conversation                                                            *)
C27_Witness ==
    /\ last.op \in ProjectionOps
    /\ last.created
    /\ AgentService_agent_key(last.user_id, MEMORY) \in DOMAIN agents[last.svc]
    /\ \E i \in 1..Len(heap) : i # last.agent /\ heap[i].messages # <<>>


----------------------------------------------------------------------------
(* Claims about concurrent requests *)

Resolved == {"invoke", "complete", "return", "done"}

ChatKey(r) == AgentService_agent_key(loop.handler[r].user_id, MEMORY)

(* C25: when chat requests for the same key are in flight together, one    *)
(* agent is created and cached for the key and every request obtains it;   *)
(* two requests are never both between the cache check and the insertion   *)
(* for one key, and every agent created stays cached.                      *)
C25_OneInstancePerKey ==
    LET H == loop.handler
        cache == agents["chat_routes"]
    IN  /\ \A r \in DOMAIN H :
               H[r].pc \in Resolved =>
                   ChatKey(r) \in DOMAIN cache /\ cache[ChatKey(r)] = H[r].agent
        /\ \A r1, r2 \in DOMAIN H :
               (r1 # r2 /\ H[r1].user_id = H[r2].user_id)
                   => ~(H[r1].pc \in {"create", "insert"}
                        /\ H[r2].pc \in {"create", "insert"})
        /\ \A i \in 1..Len(heap) :
               \/ \E key \in DOMAIN cache : cache[key] = i
               \/ \E r \in DOMAIN H : H[r].pc = "insert" /\ H[r].agent = i
        /\ Len(heap) <= Cardinality({H[r].user_id : r \in DOMAIN H})

(* two requests of one user, the second arriving before the first was      *)
(* answered, both served by the agent the first one created                *)
C25_Witness ==
    \E r1, r2 \in DOMAIN loop.handler :
        /\ r1 < r2
        /\ loop.handler[r1].user_id = loop.handler[r2].user_id
        /\ loop.handler[r2].overlaps
        /\ loop.handler[r1].pc = "done" /\ loop.handler[r2].pc = "done"
        /\ loop.handler[r1].agent = loop.handler[r2].agent
        /\ Len(heap) = 1

====
